---------------------------- MODULE Spec2Model ----------------------------
(***************************************************************************)
(* Virtual branches of gitbutler: the Branch entity with its ownership     *)
(* list (put / take / contains), and the branch catalog accessors          *)
(* (BranchReader over a path-addressable session store); and the Selection *)
(* prompt of the vendored cli-prompts crate with its key handler.          *)
(*                                                                         *)
(* Strings are sequences of one-character strings, so that formatting and  *)
(* parsing are computed and not assumed.                                   *)
(***************************************************************************)
EXTENDS Integers, Sequences, FiniteSets, TLC

\* ------------------------------------------------------------------ bounds

\* Lines of a file are 0 .. MaxLine - 1; a hunk is a half-open range of them.
MaxLine == 3

\* How many fields of a record other writers of the store overwrite or remove.
MaxRawWrites == 2

\* Characters the filter of a prompt holds at most.
MaxFilter == 2

\* ----------------------------------------------------------------- strings

\* The characters file paths are made of, in byte order.
Alphabet == <<"a", "b", "c">>

CharRank(c) == CHOOSE i \in 1..Len(Alphabet) : Alphabet[i] = c

\* Lexicographic order of two strings (Ord of a one-component path).
RECURSIVE StrLess(_, _)
StrLess(s, t) ==
    IF t = <<>> THEN FALSE
    ELSE IF s = <<>> THEN TRUE
    ELSE IF Head(s) = Head(t) THEN StrLess(Tail(s), Tail(t))
    ELSE CharRank(Head(s)) < CharRank(Head(t))

\* Option<T>
None == [some |-> FALSE]
Some(v) == [some |-> TRUE, val |-> v]

\* ------------------------------------------------------ ownership algebra

Hunk(s, e) == [start |-> s, end |-> e]

Max(a, b) == IF a >= b THEN a ELSE b

\* Merge of two hunk sequences, each sorted by start, into one sorted sequence.
RECURSIVE MergeSorted(_, _)
MergeSorted(xs, ys) ==
    IF xs = <<>> THEN ys
    ELSE IF ys = <<>> THEN xs
    ELSE IF Head(xs).start <= Head(ys).start
         THEN <<Head(xs)>> \o MergeSorted(Tail(xs), ys)
         ELSE <<Head(ys)>> \o MergeSorted(xs, Tail(ys))

\* Consecutive hunks that overlap or touch become one hunk spanning both.
RECURSIVE Coalesce(_)
Coalesce(hs) ==
    IF Len(hs) <= 1 THEN hs
    ELSE LET a == hs[1]
             b == hs[2]
             rest == SubSeq(hs, 3, Len(hs))
         IN IF b.start <= a.end
            THEN Coalesce(<<Hunk(a.start, Max(a.end, b.end))>> \o rest)
            ELSE <<a>> \o Coalesce(<<b>> \o rest)

\* Ownership::plus: the normalized union of the hunks of a and b.
plus(a, b) ==
    [file_path |-> a.file_path, hunks |-> Coalesce(MergeSorted(a.hunks, b.hunks))]

\* What is left of hunk h once hunk g is cut out of it.
SubtractHunk(h, g) ==
    IF g.end <= h.start \/ h.end <= g.start THEN <<h>>
    ELSE (IF h.start < g.start THEN <<Hunk(h.start, g.start)>> ELSE <<>>)
         \o (IF g.end < h.end THEN <<Hunk(g.end, h.end)>> ELSE <<>>)

RECURSIVE SubtractFromAll(_, _)
SubtractFromAll(hs, g) ==
    IF hs = <<>> THEN <<>>
    ELSE SubtractHunk(Head(hs), g) \o SubtractFromAll(Tail(hs), g)

RECURSIVE SubtractAll(_, _)
SubtractAll(hs, gs) ==
    IF gs = <<>> THEN hs
    ELSE SubtractAll(SubtractFromAll(hs, Head(gs)), Tail(gs))

\* Ownership::minus: None when nothing is left.
minus(a, b) ==
    LET left == SubtractAll(a.hunks, b.hunks)
    IN IF left = <<>> THEN None
       ELSE Some([file_path |-> a.file_path, hunks |-> left])

\* Ownership::contains: same file, and each hunk of b lies within a hunk of a.
Ownership_contains(a, b) ==
    /\ a.file_path = b.file_path
    /\ \A j \in 1..Len(b.hunks) :
          \E i \in 1..Len(a.hunks) :
             /\ a.hunks[i].start <= b.hunks[j].start
             /\ b.hunks[j].end <= a.hunks[i].end

\* ------------------------------------------------------------ Vec helpers

\* self.ownership.iter().cloned().find(|o| o.file_path == path): the first match.
find(v, path) ==
    IF \E i \in 1..Len(v) : v[i].file_path = path
    THEN Some(v[CHOOSE i \in 1..Len(v) :
                   /\ v[i].file_path = path
                   /\ \A j \in 1..(i - 1) : v[j].file_path # path])
    ELSE None

\* self.ownership.retain(|o| o.file_path != path)
retain(v, path) == SelectSeq(v, LAMBDA x : x.file_path # path)

\* Stable insertion of x into a list sorted by file path.
RECURSIVE InsertByPath(_, _)
InsertByPath(x, v) ==
    IF v = <<>> THEN <<x>>
    ELSE IF StrLess(x.file_path, Head(v).file_path) THEN <<x>> \o v
    ELSE <<Head(v)>> \o InsertByPath(x, Tail(v))

\* Vec::sort_by(|a, b| a.file_path.cmp(&b.file_path)): a stable sort.
RECURSIVE sort_by_file_path(_)
sort_by_file_path(v) ==
    IF v = <<>> THEN <<>>
    ELSE InsertByPath(v[Len(v)], sort_by_file_path(SubSeq(v, 1, Len(v) - 1)))

\* Vec::dedup: of consecutive equal elements only the first stays.
RECURSIVE dedup(_)
dedup(v) ==
    IF Len(v) <= 1 THEN v
    ELSE IF v[1] = v[2] THEN dedup(Tail(v))
    ELSE <<v[1]>> \o dedup(Tail(v))

\* ------------------------------------------------------------------ Branch

\* put whose retain keeps the entries of the file and drops the others
put_retain_inverted(own, o) ==
    LET target == find(own, o.file_path)
        kept == SelectSeq(own, LAMBDA x : x.file_path = o.file_path)
        pushed == IF target.some THEN Append(kept, plus(target.val, o))
                  ELSE Append(kept, o)
    IN dedup(sort_by_file_path(pushed))

\* put without the trailing sort_by
put_without_sort(own, o) ==
    LET target == find(own, o.file_path)
        kept == retain(own, o.file_path)
        pushed == IF target.some THEN Append(kept, plus(target.val, o))
                  ELSE Append(kept, o)
    IN dedup(pushed)

\* put without the retain that drops the old entry of the file
put_without_retain(own, o) ==
    LET target == find(own, o.file_path)
        pushed == IF target.some THEN Append(own, plus(target.val, o))
                  ELSE Append(own, o)
    IN dedup(sort_by_file_path(pushed))

\* Branch::put on the ownership list.
put(own, o) ==
    LET target == find(own, o.file_path)
        kept == retain(own, o.file_path)
        pushed == IF target.some THEN Append(kept, plus(target.val, o))
                  ELSE Append(kept, o)
    IN dedup(sort_by_file_path(pushed))

\* take whose retain keeps the entries of the file and drops the others
take_retain_inverted(own, o) ==
    LET target == find(own, o.file_path)
        kept == SelectSeq(own, LAMBDA x : x.file_path = o.file_path)
        remaining == IF target.some THEN minus(target.val, o) ELSE None
        pushed == IF remaining.some THEN Append(kept, remaining.val) ELSE kept
    IN dedup(sort_by_file_path(pushed))

\* take that never pushes the remainder back
take_dropping_entry(own, o) ==
    dedup(sort_by_file_path(retain(own, o.file_path)))

\* take that keeps the entry, with no hunks, when nothing remains
take_keeping_empty(own, o) ==
    LET target == find(own, o.file_path)
        kept == retain(own, o.file_path)
        remaining == IF target.some THEN minus(target.val, o) ELSE None
        pushed == IF remaining.some THEN Append(kept, remaining.val)
                  ELSE IF target.some
                       THEN Append(kept, [file_path |-> o.file_path, hunks |-> <<>>])
                       ELSE kept
    IN dedup(sort_by_file_path(pushed))

\* Branch::take on the ownership list.
take(own, o) ==
    LET target == find(own, o.file_path)
        kept == retain(own, o.file_path)
        remaining == IF target.some THEN minus(target.val, o) ELSE None
        pushed == IF remaining.some THEN Append(kept, remaining.val) ELSE kept
    IN dedup(sort_by_file_path(pushed))

\* contains with all() in place of any()
Branch_contains_all(own, o) == \A i \in 1..Len(own) : Ownership_contains(own[i], o)

\* Branch::contains
Branch_contains(own, o) == \E i \in 1..Len(own) : Ownership_contains(own[i], o)

\* ------------------------------------------------------- text conversions

Digits == <<"0", "1", "2", "3", "4", "5", "6", "7", "8", "9">>

HexDigits == Digits \o <<"a", "b", "c", "d", "e", "f">>

IsDigit(c) == \E i \in 1..Len(Digits) : Digits[i] = c

IsHexDigit(c) == \E i \in 1..Len(HexDigits) : HexDigits[i] = c

DigitValue(c) == (CHOOSE i \in 1..Len(Digits) : Digits[i] = c) - 1

\* u128::to_string
RECURSIVE ToDecimal(_)
ToDecimal(n) ==
    IF n < 10 THEN <<Digits[n + 1]>>
    ELSE ToDecimal(n \div 10) \o <<Digits[(n % 10) + 1]>>

RECURSIVE DecimalValue(_, _)
DecimalValue(s, acc) ==
    IF s = <<>> THEN acc
    ELSE DecimalValue(Tail(s), acc * 10 + DigitValue(Head(s)))

\* str::parse::<u128>: digits, after an optional plus sign.
ParseU128(s) ==
    LET body == IF s # <<>> /\ Head(s) = "+" THEN Tail(s) ELSE s
    IN IF body # <<>> /\ \A i \in 1..Len(body) : IsDigit(body[i])
       THEN Some(DecimalValue(body, 0))
       ELSE None

\* bool::to_string
BoolToString(b) == IF b THEN <<"t", "r", "u", "e">> ELSE <<"f", "a", "l", "s", "e">>

\* str::parse::<bool>
ParseBool(s) ==
    IF s = <<"t", "r", "u", "e">> THEN Some(TRUE)
    ELSE IF s = <<"f", "a", "l", "s", "e">> THEN Some(FALSE)
    ELSE None

\* str::split(c): the pieces of s between the occurrences of c.
RECURSIVE Split(_, _)
Split(s, c) ==
    IF \A i \in 1..Len(s) : s[i] # c THEN <<s>>
    ELSE LET k == CHOOSE i \in 1..Len(s) : s[i] = c /\ \A j \in 1..(i - 1) : s[j] # c
         IN <<SubSeq(s, 1, k - 1)>> \o Split(SubSeq(s, k + 1, Len(s)), c)

\* str::lines: split at line feeds; a final empty piece is no line.
StrLines(s) ==
    LET pieces == Split(s, "\n")
    IN IF pieces[Len(pieces)] = <<>> THEN SubSeq(pieces, 1, Len(pieces) - 1)
       ELSE pieces

\* [String]::join(sep)
RECURSIVE Join(_, _)
Join(parts, sep) ==
    IF parts = <<>> THEN <<>>
    ELSE IF Len(parts) = 1 THEN parts[1]
    ELSE parts[1] \o sep \o Join(Tail(parts), sep)

StartsWith(s, p) == Len(p) <= Len(s) /\ SubSeq(s, 1, Len(p)) = p

\* The text `part` stands somewhere in the text s.
Carries(s, part) ==
    \E i \in 1..(Len(s) - Len(part) + 1) : SubSeq(s, i, i + Len(part) - 1) = part

\* ---------------------------------------------------------------- git2::Oid

\* An Oid is twenty bytes.
OidRawLen == 20

HexValue(c) == (CHOOSE i \in 1..Len(HexDigits) : HexDigits[i] = c) - 1

\* Oid::to_string: two hexadecimal digits for each byte.
RECURSIVE OidToString(_)
OidToString(oid) ==
    IF oid = <<>> THEN <<>>
    ELSE <<HexDigits[(Head(oid) \div 16) + 1], HexDigits[(Head(oid) % 16) + 1]>>
         \o OidToString(Tail(oid))

\* Oid::from_str: up to forty hexadecimal digits, zero-filled on the right.
OidFromStr(s) ==
    IF s # <<>> /\ Len(s) <= 2 * OidRawLen /\ \A i \in 1..Len(s) : IsHexDigit(s[i])
    THEN LET hex == [i \in 1..(2 * OidRawLen) |-> IF i <= Len(s) THEN s[i] ELSE "0"]
         IN Some([k \in 1..OidRawLen |->
                     16 * HexValue(hex[2 * k - 1]) + HexValue(hex[2 * k])])
    ELSE None

\* ------------------------------------------------------- Ownership as text

\* Hunk as text: start-end
HunkToString(h) == ToDecimal(h.start) \o <<"-">> \o ToDecimal(h.end)

ParseHunk(s) ==
    LET parts == Split(s, "-")
    IN IF Len(parts) = 2 /\ ParseU128(parts[1]).some /\ ParseU128(parts[2]).some
       THEN Some(Hunk(ParseU128(parts[1]).val, ParseU128(parts[2]).val))
       ELSE None

RECURSIVE MapHunkToString(_)
MapHunkToString(hs) ==
    IF hs = <<>> THEN <<>> ELSE <<HunkToString(Head(hs))>> \o MapHunkToString(Tail(hs))

\* Ownership as one line of text: path, or path:start-end,start-end
OwnershipToString(o) ==
    IF o.hunks = <<>> THEN o.file_path
    ELSE o.file_path \o <<":">> \o Join(MapHunkToString(o.hunks), <<",">>)

\* The message of a line that does not parse: it carries the line.
ParseErrorText(line) == <<"b", "a", "d", " ", "l", "i", "n", "e", ":", " ">> \o line

\* Ownership::parse_string
parse_string(line) ==
    LET parts == Split(line, ":")
        ranges == IF Len(parts) = 2 THEN Split(parts[2], ",") ELSE <<>>
    IN IF /\ Len(parts) <= 2
          /\ parts[1] # <<>>
          /\ \A i \in 1..Len(ranges) : ParseHunk(ranges[i]).some
       THEN [ok |-> TRUE,
             val |-> [file_path |-> parts[1],
                      hunks |-> [i \in 1..Len(ranges) |-> ParseHunk(ranges[i]).val]]]
       ELSE [ok |-> FALSE, err |-> [kind |-> "ParseError", msg |-> ParseErrorText(line)]]

\* --------------------------------------------------- crate::reader::Reader

\* Paths of the session store.
P_branches == <<"b", "r", "a", "n", "c", "h", "e", "s">>
P_selected == <<"s", "e", "l", "e", "c", "t", "e", "d">>
P_id == <<"i", "d">>
P_name == <<"m", "e", "t", "a", "/", "n", "a", "m", "e">>
P_applied == <<"m", "e", "t", "a", "/", "a", "p", "p", "l", "i", "e", "d">>
P_upstream == <<"m", "e", "t", "a", "/", "u", "p", "s", "t", "r", "e", "a", "m">>
P_tree == <<"m", "e", "t", "a", "/", "t", "r", "e", "e">>
P_head == <<"m", "e", "t", "a", "/", "h", "e", "a", "d">>
P_created == <<"m", "e", "t", "a", "/", "c", "r", "e", "a", "t", "e", "d", "_", "t", "i", "m", "e", "s", "t", "a", "m", "p", "_", "m", "s">>
P_updated == <<"m", "e", "t", "a", "/", "u", "p", "d", "a", "t", "e", "d", "_", "t", "i", "m", "e", "s", "t", "a", "m", "p", "_", "m", "s">>
P_ownership == <<"m", "e", "t", "a", "/", "o", "w", "n", "e", "r", "s", "h", "i", "p">>

\* Path::join
PathJoin(a, b) == a \o <<"/">> \o b

\* format!("branches/{}", id)
BranchPath(id) == P_branches \o <<"/">> \o id

\* reader::Error
NotFound == [kind |-> "NotFound"]
IOError(msg) == [kind |-> "IOError", msg |-> msg]
ParseError(msg) == [kind |-> "ParseError", msg |-> msg]

Ok(v) == [ok |-> TRUE, val |-> v]
Err(e) == [ok |-> FALSE, err |-> e]

\* Display of reader::Error
ErrorText(e) == IF e.kind = "NotFound" THEN <<"f", "i", "l", "e", " ", "n", "o", "t", " ", "f", "o", "u", "n", "d">> ELSE e.msg

\* Reader::exists: a value, or anything below the path, is stored.
exists(st, path) ==
    \/ path \in DOMAIN st
    \/ \E q \in DOMAIN st : StartsWith(q, path \o <<"/">>)

\* What the store holds at a path whose bytes the medium cannot deliver
\* (it is no text: a text is a sequence of single characters).
Unreadable == <<"unreadable">>

MediumFailure == IOError(<<"r", "e", "a", "d", " ", "f", "a", "i", "l", "e", "d">>)

\* Reader::read_string
read_string(st, path) ==
    IF path \notin DOMAIN st THEN Err(NotFound)
    ELSE IF st[path] = Unreadable THEN Err(MediumFailure)
    ELSE Ok(st[path])

\* Reader::read_bool
read_bool(st, path) ==
    LET s == read_string(st, path)
    IN IF ~s.ok THEN s
       ELSE IF ParseBool(s.val).some THEN Ok(ParseBool(s.val).val)
       ELSE Err(ParseError(<<"n", "o", "t", " ", "a", " ", "b", "o", "o", "l", ":", " ">> \o s.val))

\* Reader::read_u128
read_u128(st, path) ==
    LET s == read_string(st, path)
    IN IF ~s.ok THEN s
       ELSE IF ParseU128(s.val).some THEN Ok(ParseU128(s.val).val)
       ELSE Err(ParseError(<<"n", "o", "t", " ", "a", " ", "n", "u", "m", "b", "e", "r", ":", " ">> \o s.val))

\* A reader scoped to a prefix: SubReader::new(reader, prefix).read_string(path)
sub_read_string(st, prefix, path) == read_string(st, PathJoin(prefix, path))

sub_read_bool(st, prefix, path) == read_bool(st, PathJoin(prefix, path))

sub_read_u128(st, prefix, path) == read_u128(st, PathJoin(prefix, path))

\* ------------------------------------------------------------ BranchWriter

RECURSIVE MapOwnershipToString(_)
MapOwnershipToString(os) ==
    IF os = <<>> THEN <<>>
    ELSE <<OwnershipToString(Head(os))>> \o MapOwnershipToString(Tail(os))

\* The fields of a branch record, as path and text.
BranchFields(b) ==
    LET root == BranchPath(b.id)
    IN {<<PathJoin(root, P_id), b.id>>,
        <<PathJoin(root, P_name), b.name>>,
        <<PathJoin(root, P_applied), BoolToString(b.applied)>>,
        <<PathJoin(root, P_upstream), b.upstream>>,
        <<PathJoin(root, P_tree), OidToString(b.tree)>>,
        <<PathJoin(root, P_head), OidToString(b.head)>>,
        <<PathJoin(root, P_created), ToDecimal(b.created_timestamp_ms)>>,
        <<PathJoin(root, P_updated), ToDecimal(b.updated_timestamp_ms)>>,
        <<PathJoin(root, P_ownership),
          Join(MapOwnershipToString(b.ownership), <<"\n">>)>>}

\* Writer::write_string: the store with one value set.
write_string(st, path, value) ==
    [q \in DOMAIN st \cup {path} |-> IF q = path THEN value ELSE st[q]]

\* Writer::remove: the store without the path.
remove(st, path) == [q \in DOMAIN st \ {path} |-> st[q]]

\* BranchWriter::write: every field of the record, each at its path.
write(st, b) ==
    LET fields == BranchFields(b)
        paths == {f[1] : f \in fields}
    IN [q \in DOMAIN st \cup paths |->
           IF q \in paths THEN (CHOOSE f \in fields : f[1] = q)[2] ELSE st[q]]

\* BranchWriter::write_selected: Some(id) is stored, None clears the pointer.
write_selected(st, id) ==
    IF id.some THEN write_string(st, PathJoin(P_branches, P_selected), id.val)
    ELSE remove(st, PathJoin(P_branches, P_selected))

\* ------------------------------------------------------------ BranchReader

\* the error without the path of the field
Wrap_dropping_field(field, e) == IOError(ErrorText(e))

\* map_err(|e| IOError(format!("{field}: {}", e)))
Wrap(field, e) == IOError(field \o <<":", " ">> \o ErrorText(e))

\* the lines that parse, the others skipped
ParseOwnershipLinesLenient(lines) ==
    LET good == SelectSeq(lines, LAMBDA l : parse_string(l).ok)
    IN Ok([i \in 1..Len(good) |-> parse_string(good[i]).val])

\* .lines().map(Ownership::parse_string).collect::<Result<Vec<Ownership>>>():
\* the ownerships, or the error of the first line that does not parse.
ParseOwnershipLines(lines) ==
    IF \A i \in 1..Len(lines) : parse_string(lines[i]).ok
    THEN Ok([i \in 1..Len(lines) |-> parse_string(lines[i]).val])
    ELSE LET k == CHOOSE i \in 1..Len(lines) :
                     /\ ~parse_string(lines[i]).ok
                     /\ \A j \in 1..(i - 1) : parse_string(lines[j]).ok
         IN Err(parse_string(lines[k]).err)

\* The outcome of a read: a branch, an error, or the abort of an unwrap.
Panic == [ok |-> FALSE, err |-> [kind |-> "panic"]]

\* try_from with meta/head read into tree and meta/tree into head
try_from_swapped_oids(st, root) ==
    LET id == sub_read_string(st, root, P_id)
        name == sub_read_string(st, root, P_name)
        applied == sub_read_bool(st, root, P_applied)
        upstream == sub_read_string(st, root, P_upstream)
        tree == sub_read_string(st, root, P_head)
        head == sub_read_string(st, root, P_tree)
        created == sub_read_u128(st, root, P_created)
        updated == sub_read_u128(st, root, P_updated)
        ownership_string == sub_read_string(st, root, P_ownership)
        ownership == ParseOwnershipLines(StrLines(ownership_string.val))
    IN IF ~id.ok THEN Err(Wrap(P_id, id.err))
       ELSE IF ~name.ok THEN Err(Wrap(P_name, name.err))
       ELSE IF ~applied.ok THEN Err(Wrap(P_applied, applied.err))
       ELSE IF ~upstream.ok THEN Err(Wrap(P_upstream, upstream.err))
       ELSE IF ~tree.ok THEN Err(Wrap(P_tree, tree.err))
       ELSE IF ~head.ok THEN Err(Wrap(P_head, head.err))
       ELSE IF ~created.ok THEN Err(Wrap(P_created, created.err))
       ELSE IF ~updated.ok THEN Err(Wrap(P_updated, updated.err))
       ELSE IF ~ownership_string.ok THEN Err(Wrap(P_ownership, ownership_string.err))
       ELSE IF ~ownership.ok THEN Err(Wrap(P_ownership, ownership.err))
       ELSE IF ~OidFromStr(tree.val).some THEN Panic
       ELSE IF ~OidFromStr(head.val).some THEN Panic
       ELSE Ok([id |-> id.val,
                name |-> name.val,
                applied |-> applied.val,
                upstream |-> upstream.val,
                tree |-> OidFromStr(tree.val).val,
                head |-> OidFromStr(head.val).val,
                created_timestamp_ms |-> created.val,
                updated_timestamp_ms |-> updated.val,
                ownership |-> ownership.val])

\* impl TryFrom<&dyn Reader> for Branch, for the reader scoped to `root`.
try_from(st, root) ==
    LET id == sub_read_string(st, root, P_id)
        name == sub_read_string(st, root, P_name)
        applied == sub_read_bool(st, root, P_applied)
        upstream == sub_read_string(st, root, P_upstream)
        tree == sub_read_string(st, root, P_tree)
        head == sub_read_string(st, root, P_head)
        created == sub_read_u128(st, root, P_created)
        updated == sub_read_u128(st, root, P_updated)
        ownership_string == sub_read_string(st, root, P_ownership)
        ownership == ParseOwnershipLines(StrLines(ownership_string.val))
    IN IF ~id.ok THEN Err(Wrap(P_id, id.err))
       ELSE IF ~name.ok THEN Err(Wrap(P_name, name.err))
       ELSE IF ~applied.ok THEN Err(Wrap(P_applied, applied.err))
       ELSE IF ~upstream.ok THEN Err(Wrap(P_upstream, upstream.err))
       ELSE IF ~tree.ok THEN Err(Wrap(P_tree, tree.err))
       ELSE IF ~head.ok THEN Err(Wrap(P_head, head.err))
       ELSE IF ~created.ok THEN Err(Wrap(P_created, created.err))
       ELSE IF ~updated.ok THEN Err(Wrap(P_updated, updated.err))
       ELSE IF ~ownership_string.ok THEN Err(Wrap(P_ownership, ownership_string.err))
       ELSE IF ~ownership.ok THEN Err(Wrap(P_ownership, ownership.err))
       ELSE IF ~OidFromStr(tree.val).some THEN Panic
       ELSE IF ~OidFromStr(head.val).some THEN Panic
       ELSE Ok([id |-> id.val,
                name |-> name.val,
                applied |-> applied.val,
                upstream |-> upstream.val,
                tree |-> OidFromStr(tree.val).val,
                head |-> OidFromStr(head.val).val,
                created_timestamp_ms |-> created.val,
                updated_timestamp_ms |-> updated.val,
                ownership |-> ownership.val])

\* BranchReader::read
read(st, id) ==
    IF ~exists(st, BranchPath(id)) THEN Err(NotFound)
    ELSE try_from(st, BranchPath(id))

\* read_selected with every error turned into None
read_selected_swallowing(st) ==
    LET selected == read_string(st, PathJoin(P_branches, P_selected))
    IN IF selected.ok THEN Ok(Some(selected.val)) ELSE Ok(None)

\* read_selected without the arm that turns NotFound into None
read_selected_strict(st) ==
    LET selected == read_string(st, PathJoin(P_branches, P_selected))
    IN IF selected.ok THEN Ok(Some(selected.val)) ELSE Err(selected.err)

\* BranchReader::read_selected
read_selected(st) ==
    LET selected == read_string(st, PathJoin(P_branches, P_selected))
    IN IF selected.ok THEN Ok(Some(selected.val))
       ELSE IF selected.err.kind = "NotFound" THEN Ok(None)
       ELSE Err(selected.err)

\* ------------------------------------------------------- inputs of put/take

FilePaths == {<<"a", "b">>, <<"b">>}

Lines == 0..(MaxLine - 1)

\* The hunks that cover exactly the lines of S from line `from` on, in order.
RECURSIVE HunksOfLines(_, _)
HunksOfLines(S, from) ==
    IF \A l \in S : l < from THEN <<>>
    ELSE LET s == CHOOSE l \in S : l >= from /\ \A m \in S : m >= from => l <= m
             e == CHOOSE l \in (s + 1)..MaxLine :
                     /\ l \notin S
                     /\ \A m \in s..(l - 1) : m \in S
         IN <<Hunk(s, e)>> \o HunksOfLines(S, e)

\* Every sorted, non-overlapping, coalesced hunk list, the empty one included.
HunkLists == {HunksOfLines(S, 0) : S \in SUBSET Lines}

AllHunks == {h \in [start : 0..MaxLine, end : 0..MaxLine] : h.start < h.end}

Ownerships == [file_path : FilePaths, hunks : HunkLists]

\* The lines a hunk list covers.
Cover(hs) == {l \in Lines : \E i \in 1..Len(hs) : hs[i].start <= l /\ l < hs[i].end}

\* Two hunks that neither overlap nor touch.
Apart(h, g) == g.end < h.start \/ h.end < g.start

HasEntry(own, path) == \E i \in 1..Len(own) : own[i].file_path = path

EntriesOf(own, path) == SelectSeq(own, LAMBDA x : x.file_path = path)

\* -------------------------------------------------- inputs of the catalog

Str_b1 == <<"b", "1">>
Str_b2 == <<"b", "2">>

\* The ids branches are written under.
BranchIds == {Str_b1, Str_b2}

\* The ids read: the written ones, the pointer's own name, an id never
\* written, and an id that names a directory inside a record.
ReadIds == BranchIds \cup {P_selected, <<"n", "x">>, <<"b", "1", "/", "m", "e", "t", "a">>}

Oid1 == [i \in 1..OidRawLen |-> (i * 13) % 256]
Oid2 == [i \in 1..OidRawLen |-> (i * 7 + 200) % 256]
Oid3 == [i \in 1..OidRawLen |-> IF i = 1 THEN 1 ELSE 0]

\* Three branches for each id. They differ in every field; the ownership
\* lists are a sorted one with an entry without hunks, an unsorted one, and
\* the empty one.
SampleBranch(id, k) ==
    [id |-> id,
     name |-> <<"n", Digits[k + 1]>>,
     applied |-> (k = 1),
     upstream |-> IF k = 2 THEN <<>> ELSE <<"u", Digits[k + 1]>>,
     created_timestamp_ms |-> k,
     updated_timestamp_ms |-> 100 + k,
     tree |-> IF k = 1 THEN Oid1 ELSE IF k = 2 THEN Oid2 ELSE Oid3,
     head |-> IF k = 1 THEN Oid2 ELSE IF k = 2 THEN Oid3 ELSE Oid1,
     ownership |->
        IF k = 1 THEN <<[file_path |-> <<"a", "b">>, hunks |-> <<Hunk(0, 1), Hunk(2, 13)>>],
                        [file_path |-> <<"b">>, hunks |-> <<>>]>>
        ELSE IF k = 2 THEN <<[file_path |-> <<"b">>, hunks |-> <<Hunk(1, 3)>>],
                             [file_path |-> <<"a", "b">>, hunks |-> <<Hunk(0, 2)>>]>>
        ELSE <<>>]

SampleBranches == {SampleBranch(id, k) : id \in BranchIds, k \in {1, 2, 3}}

SelectedArgs == {None} \cup {Some(id) : id \in BranchIds}

\* Lines of a stored meta/ownership value: one that parses, two that do not.
GoodLine == <<"a", "b", ":", "0", "-", "2">>
BadLines == {<<"b", ":", "1", "-">>, <<"b", ":", "0", "-", "1", ":", "2">>}

OwnershipLinesRaw == {GoodLine} \cup BadLines

\* Stored meta/ownership values of one or two lines, and one of three.
OwnershipTexts ==
    {Join(<<l>>, <<"\n">>) : l \in OwnershipLinesRaw}
    \cup {Join(<<l, m>>, <<"\n">>) : l \in OwnershipLinesRaw, m \in OwnershipLinesRaw}
    \cup {Join(<<GoodLine, l, GoodLine>>, <<"\n">>) : l \in BadLines}

FieldPaths ==
    {P_id, P_name, P_applied, P_upstream, P_tree, P_head, P_created, P_updated,
     P_ownership}

\* Texts another writer of the store may leave in a field.
RawTexts(field) ==
    IF field = P_ownership THEN OwnershipTexts
    ELSE {<<>>, <<"z", "z">>, <<"1", "2">>}

\* ------------------------------------------- prompts::options::Selection

\* Options<T>: the options, their labels, and the positions (from 0) of the
\* options the filter keeps. The options here are their own labels.
from_iter(items) ==
    [all_options |-> items,
     transformed_options |-> items,
     filtered_options |-> [i \in 1..Len(items) |-> i - 1]]

\* The positions 0..n-1 whose label satisfies the filter, in order.
RECURSIVE Matching(_, _, _)
Matching(labels, text, k) ==
    IF k > Len(labels) THEN <<>>
    ELSE (IF Carries(labels[k], text) THEN <<k - 1>> ELSE <<>>)
         \o Matching(labels, text, k + 1)

\* Options::filter: keeps the options whose label contains the filter text.
filter(options, text) ==
    [options EXCEPT !.filtered_options = Matching(options.transformed_options, text, 1)]

\* Vec::remove(index), index from 0.
Vec_remove(v, index) ==
    [i \in 1..(Len(v) - 1) |-> IF i <= index THEN v[i] ELSE v[i + 1]]

\* usize::saturating_sub
saturating_sub(a, b) == IF a > b THEN a - b ELSE 0

\* usize::saturating_add, for operands far below usize::MAX
saturating_add(a, b) == a + b

\* usize::min
usize_min(a, b) == IF a < b THEN a ELSE b

\* Selection::new_internal
new_internal(options) ==
    [options |-> options,
     current_selection |-> 0,
     current_filter |-> <<>>,
     is_submitted |-> FALSE]

\* Selection::new
Selection_new(items) == new_internal(from_iter(items))

last_filtered_index(self) ==
    saturating_sub(Len(self.options.filtered_options), 1)

move_selection_up(self) ==
    [self EXCEPT !.current_selection = saturating_sub(@, 1)]

\* move_selection_down that stops at the number of filtered options
move_selection_down_past_end(self) ==
    [self EXCEPT !.current_selection =
        usize_min(saturating_add(@, 1), Len(self.options.filtered_options))]

move_selection_down(self) ==
    [self EXCEPT !.current_selection =
        usize_min(saturating_add(@, 1), last_filtered_index(self))]

move_selection_to_start(self) == [self EXCEPT !.current_selection = 0]

move_selection_to_end(self) ==
    [self EXCEPT !.current_selection = last_filtered_index(self)]

\* input::Key
Key_Char(c) == [kind |-> "Char", c |-> c]
Key_Ctrl(c) == [kind |-> "Ctrl", c |-> c]
Key_Named(kind) == [kind |-> kind]

\* EventOutcome, and the abort of an index out of bounds
Continue == [kind |-> "Continue"]
Done(v) == [kind |-> "Done", val |-> v]
Abort(reason) == [kind |-> "Abort", reason |-> reason]
OutOfBounds == [kind |-> "panic"]

\* Key::Up | Key::Ctrl('p') | Key::Ctrl('P'), and the other three patterns
UpKeys == {Key_Named("Up"), Key_Ctrl("p"), Key_Ctrl("P")}
DownKeys == {Key_Named("Down"), Key_Ctrl("n"), Key_Ctrl("N")}
HomeKeys == {Key_Named("Home"), Key_Ctrl("a"), Key_Ctrl("A")}
EndKeys == {Key_Named("End"), Key_Ctrl("e"), Key_Ctrl("E")}

\* the two arms without the reset of the selection
with_filter_keeping_selection(self, text) ==
    [self EXCEPT !.current_filter = text,
                 !.options = filter(@, text)]

\* The arms of Key::Char and Key::Backspace: the filter text changes, the
\* options are filtered again, the selection goes back to the first one.
with_filter(self, text) ==
    [self EXCEPT !.current_filter = text,
                 !.options = filter(@, text),
                 !.current_selection = 0]

\* the Enter arm taking the option at position current_selection of all options
on_enter_unfiltered(self) ==
    IF self.current_selection >= Len(self.options.all_options)
    THEN [self |-> [self EXCEPT !.is_submitted = TRUE], outcome |-> OutOfBounds]
    ELSE [self |-> [self EXCEPT !.is_submitted = TRUE,
                                !.options.all_options =
                                    Vec_remove(@, self.current_selection)],
          outcome |-> Done(self.options.all_options[self.current_selection + 1])]

\* The arm of Key::Enter when some option is filtered in.
on_enter(self) ==
    IF self.current_selection >= Len(self.options.filtered_options)
    THEN [self |-> [self EXCEPT !.is_submitted = TRUE], outcome |-> OutOfBounds]
    ELSE LET selected_option_index ==
                 self.options.filtered_options[self.current_selection + 1]
         IN IF selected_option_index >= Len(self.options.all_options)
            THEN [self |-> [self EXCEPT !.is_submitted = TRUE], outcome |-> OutOfBounds]
            ELSE [self |-> [self EXCEPT !.is_submitted = TRUE,
                                        !.options.all_options =
                                            Vec_remove(@, selected_option_index)],
                  outcome |-> Done(self.options.all_options[selected_option_index + 1])]

\* Selection::on_key_pressed: the prompt after the key, and the outcome.
on_key_pressed(self, key) ==
    IF key.kind = "Char"
    THEN [self |-> with_filter(self, Append(self.current_filter, key.c)),
          outcome |-> Continue]
    ELSE IF key.kind = "Backspace" /\ self.current_filter # <<>>
    THEN [self |-> with_filter(self, SubSeq(self.current_filter, 1,
                                            Len(self.current_filter) - 1)),
          outcome |-> Continue]
    ELSE IF key \in UpKeys THEN [self |-> move_selection_up(self), outcome |-> Continue]
    ELSE IF key \in DownKeys THEN [self |-> move_selection_down(self), outcome |-> Continue]
    ELSE IF key \in HomeKeys THEN [self |-> move_selection_to_start(self), outcome |-> Continue]
    ELSE IF key \in EndKeys THEN [self |-> move_selection_to_end(self), outcome |-> Continue]
    ELSE IF key.kind = "Enter" /\ self.options.filtered_options # <<>>
    THEN on_enter(self)
    ELSE IF key.kind = "Esc" THEN [self |-> self, outcome |-> Abort("Interrupt")]
    ELSE [self |-> self, outcome |-> Continue]

\* ------------------------------------------------- inputs of the prompt

Label_a == <<"a">>
Label_b == <<"b">>
Label_ab == <<"a", "b">>

\* The option lists a prompt is created with: three options, one, none.
OptionLists == {<<Label_a, Label_b, Label_ab>>, <<Label_b>>, <<>>}

\* The characters typed into the filter: two that stand in labels, one that
\* stands in none.
FilterChars == {"a", "b", "z"}

CharKeys == {Key_Char(c) : c \in FilterChars}

NavigationKeys == UpKeys \cup DownKeys \cup HomeKeys \cup EndKeys

\* Keys no arm names: Tab, Left, Ctrl-x.
OtherKeys == {Key_Named("Tab"), Key_Named("Left"), Key_Ctrl("x")}

\* ----------------------------------------------------------- machine state

VARIABLES
    branch,         \* the Branch in memory
    lastOp,         \* "none", "put" or "take": the last call on the branch
    lastArg,        \* its Ownership argument
    prevOwnership,  \* branch.ownership before that call
    assigned,       \* the fields of the Branch that call assigned
    scenario,       \* progress of the put / put / take sequences of the tests
    store,          \* the session store: path -> text
    lastWritten,    \* id -> the Branch last written under it, if any, and
                    \* whether that write replaced a different one
    selectCalls,    \* the arguments of the last two write_selected calls
    rawWrites,      \* fields overwritten or removed by other writers
    storeOp,        \* the last call on the catalog, with its result
    prompt,         \* the Selection prompt
    event           \* the last key the prompt was given, the prompt before
                    \* it, and the outcome on_key_pressed returned

branchVars == <<branch, lastOp, lastArg, prevOwnership, assigned, scenario>>

storeVars == <<store, lastWritten, selectCalls, rawWrites, storeOp>>

promptVars == <<prompt, event>>

vars == <<branch, lastOp, lastArg, prevOwnership, assigned, scenario,
          store, lastWritten, selectCalls, rawWrites, storeOp, prompt, event>>

\* A Branch as the owning application creates it, before any put or take.
NewBranch == SampleBranch(Str_b1, 3)

NoHunk == Hunk(0, 0)

Idle == [stage |-> 0, file |-> <<>>, h1 |-> NoHunk, h2 |-> NoHunk]

\* The monitor of the sequences
\*   put(f,[h1]) on a branch without f        (stage 1)
\*   then put(f,[h2]), h1 and h2 apart        (stage 2)
\*   then take(f,[h2])                        (stage 3)
\* and put(f,[h1]) then take(f,[h1])          (stage 4).
Advance(sc, own, op, o) ==
    IF sc.stage = 1 /\ op = "put" /\ o.file_path = sc.file /\ Len(o.hunks) = 1
       /\ Apart(sc.h1, o.hunks[1])
    THEN [sc EXCEPT !.stage = 2, !.h2 = o.hunks[1]]
    ELSE IF sc.stage = 1 /\ op = "take" /\ o.file_path = sc.file /\ o.hunks = <<sc.h1>>
    THEN [sc EXCEPT !.stage = 4]
    ELSE IF sc.stage = 2 /\ op = "take" /\ o.file_path = sc.file /\ o.hunks = <<sc.h2>>
    THEN [sc EXCEPT !.stage = 3]
    ELSE IF op = "put" /\ Len(o.hunks) = 1 /\ ~HasEntry(own, o.file_path)
    THEN [stage |-> 1, file |-> o.file_path, h1 |-> o.hunks[1], h2 |-> NoHunk]
    ELSE Idle

EmptyStore == [q \in {} |-> <<>>]

Unwritten == [some |-> FALSE, val |-> <<>>, replaced |-> FALSE]

BranchInit ==
    /\ branch = NewBranch
    /\ lastOp = "none"
    /\ lastArg = [file_path |-> <<>>, hunks |-> <<>>]
    /\ prevOwnership = <<>>
    /\ assigned = {}
    /\ scenario = Idle

StoreInit ==
    /\ store = EmptyStore
    /\ lastWritten = [id \in BranchIds |-> Unwritten]
    /\ selectCalls = <<>>
    /\ rawWrites = 0
    /\ storeOp = [op |-> "none"]

\* A prompt over the given options, before any key.
PromptNew(items) ==
    /\ prompt = Selection_new(items)
    /\ event = [key |-> Key_Named("none"), before |-> Selection_new(items),
                outcome |-> Continue]

PromptInit == PromptNew(<<Label_a, Label_b, Label_ab>>)

Init == BranchInit /\ StoreInit /\ PromptInit

\* ------------------------------------------------ the Branch in memory

DoPut(o) ==
    /\ branch' = [branch EXCEPT !.ownership = put(@, o)]
    /\ lastOp' = "put"
    /\ lastArg' = o
    /\ prevOwnership' = branch.ownership
    /\ assigned' = {"ownership"}
    /\ scenario' = Advance(scenario, branch.ownership, "put", o)
    /\ UNCHANGED storeVars
    /\ UNCHANGED promptVars

DoTake(o) ==
    /\ branch' = [branch EXCEPT !.ownership = take(@, o)]
    /\ lastOp' = "take"
    /\ lastArg' = o
    /\ prevOwnership' = branch.ownership
    /\ assigned' = {"ownership"}
    /\ scenario' = Advance(scenario, branch.ownership, "take", o)
    /\ UNCHANGED storeVars
    /\ UNCHANGED promptVars

BranchNext ==
    \/ \E o \in Ownerships : DoPut(o)
    \/ \E o \in Ownerships : DoTake(o)

Spec == Init /\ [][BranchNext]_vars

\* ------------------------------------------------- the catalog of a session

\* The last two arguments of write_selected.
Remember(calls, arg) ==
    IF Len(calls) < 2 THEN Append(calls, arg) ELSE <<calls[2], arg>>

Write(b) ==
    /\ store' = write(store, b)
    /\ lastWritten' = [lastWritten EXCEPT ![b.id] =
                           [some |-> TRUE, val |-> b, replaced |-> @.some /\ @.val # b]]
    /\ storeOp' = [op |-> "write", id |-> b.id]
    /\ UNCHANGED <<selectCalls, rawWrites>>
    /\ UNCHANGED branchVars
    /\ UNCHANGED promptVars

WriteSelected(id) ==
    /\ store' = write_selected(store, id)
    /\ selectCalls' = Remember(selectCalls, id)
    /\ storeOp' = [op |-> "write_selected"]
    /\ UNCHANGED <<lastWritten, rawWrites>>
    /\ UNCHANGED branchVars
    /\ UNCHANGED promptVars

Read(id) ==
    /\ storeOp' = [op |-> "read", id |-> id, result |-> read(store, id)]
    /\ UNCHANGED <<store, lastWritten, selectCalls, rawWrites>>
    /\ UNCHANGED branchVars
    /\ UNCHANGED promptVars

ReadSelected ==
    /\ storeOp' = [op |-> "read_selected", result |-> read_selected(store)]
    /\ UNCHANGED <<store, lastWritten, selectCalls, rawWrites>>
    /\ UNCHANGED branchVars
    /\ UNCHANGED promptVars

CatalogNext ==
    \/ \E b \in SampleBranches : Write(b)
    \/ \E id \in SelectedArgs : WriteSelected(id)
    \/ \E id \in ReadIds : Read(id)
    \/ ReadSelected

SpecCatalog == Init /\ [][CatalogNext]_vars

\* ------------------------------ a record other writers of the store touch

\* One branch has been written; the store is shared with other writers.
RecordInit ==
    /\ BranchInit
    /\ PromptInit
    /\ \E k \in {1, 2} :
          /\ store = write(EmptyStore, SampleBranch(Str_b1, k))
          /\ lastWritten = [id \in BranchIds |->
                               IF id = Str_b1
                               THEN [some |-> TRUE, val |-> SampleBranch(Str_b1, k),
                                     replaced |-> FALSE]
                               ELSE Unwritten]
    /\ selectCalls = <<>>
    /\ rawWrites = 0
    /\ storeOp = [op |-> "write", id |-> Str_b1]

\* Writer::write_string by another writer, on a field of the record.
RawWrite(field, text) ==
    /\ rawWrites < MaxRawWrites
    /\ store' = write_string(store, PathJoin(BranchPath(Str_b1), field), text)
    /\ rawWrites' = rawWrites + 1
    /\ storeOp' = [op |-> "raw"]
    /\ UNCHANGED <<lastWritten, selectCalls>>
    /\ UNCHANGED branchVars
    /\ UNCHANGED promptVars

\* A field that is absent: removed, or never written by a write that failed midway.
RawRemove(field) ==
    /\ rawWrites < MaxRawWrites
    /\ PathJoin(BranchPath(Str_b1), field) \in DOMAIN store
    /\ store' = remove(store, PathJoin(BranchPath(Str_b1), field))
    /\ rawWrites' = rawWrites + 1
    /\ storeOp' = [op |-> "raw"]
    /\ UNCHANGED <<lastWritten, selectCalls>>
    /\ UNCHANGED branchVars
    /\ UNCHANGED promptVars

\* The medium stops delivering the bytes of a field.
Damage(field) ==
    /\ rawWrites < MaxRawWrites
    /\ PathJoin(BranchPath(Str_b1), field) \in DOMAIN store
    /\ store' = write_string(store, PathJoin(BranchPath(Str_b1), field), Unreadable)
    /\ rawWrites' = rawWrites + 1
    /\ storeOp' = [op |-> "raw"]
    /\ UNCHANGED <<lastWritten, selectCalls>>
    /\ UNCHANGED branchVars
    /\ UNCHANGED promptVars

RecordNext ==
    \/ \E field \in FieldPaths : \E text \in RawTexts(field) : RawWrite(field, text)
    \/ \E field \in FieldPaths : RawRemove(field)
    \/ \E field \in FieldPaths : Damage(field)
    \/ \E id \in ReadIds : Read(id)

SpecRecord == RecordInit /\ [][RecordNext]_vars

\* ------------------------------------ the pointer on a medium that can fail

\* The ids given to write_selected: any text, written as a branch or not.
PointerArgs == {None} \cup {Some(id) : id \in ReadIds}

\* The medium stops delivering the bytes of branches/selected.
DamageSelected ==
    /\ PathJoin(P_branches, P_selected) \in DOMAIN store
    /\ store[PathJoin(P_branches, P_selected)] # Unreadable
    /\ store' = write_string(store, PathJoin(P_branches, P_selected), Unreadable)
    /\ storeOp' = [op |-> "damage"]
    /\ UNCHANGED <<lastWritten, selectCalls, rawWrites>>
    /\ UNCHANGED branchVars
    /\ UNCHANGED promptVars

PointerNext ==
    \/ \E id \in PointerArgs : WriteSelected(id)
    \/ DamageSelected
    \/ ReadSelected

SpecPointer == Init /\ [][PointerNext]_vars

\* ---------------------------------------------- the prompt and its keys

\* The engine gives the prompt keys for as long as it answers Continue.
Running == event.outcome = Continue

\* One call of on_key_pressed.
Press(key) ==
    /\ Running
    /\ prompt' = on_key_pressed(prompt, key).self
    /\ event' = [key |-> key, before |-> prompt,
                 outcome |-> on_key_pressed(prompt, key).outcome]
    /\ UNCHANGED branchVars
    /\ UNCHANGED storeVars

\* A character is typed; the filter holds at most MaxFilter characters.
Type(key) ==
    /\ Len(prompt.current_filter) < MaxFilter
    /\ Press(key)

Backspace ==
    /\ ~prompt.is_submitted
    /\ Press(Key_Named("Backspace"))

Navigate(key) ==
    /\ key \in NavigationKeys
    /\ Press(key)

Enter ==
    /\ ~prompt.is_submitted
    /\ Press(Key_Named("Enter"))

Escape ==
    /\ ~prompt.is_submitted
    /\ Press(Key_Named("Esc"))

OtherKey(key) ==
    /\ key \in OtherKeys
    /\ Press(key)

SelectionNext ==
    \/ \E key \in CharKeys : Type(key)
    \/ Backspace
    \/ \E key \in NavigationKeys : Navigate(key)
    \/ Enter
    \/ Escape
    \/ \E key \in OtherKeys : OtherKey(key)

SelectionInit ==
    /\ BranchInit
    /\ StoreInit
    /\ \E items \in OptionLists : PromptNew(items)

SpecSelection == SelectionInit /\ [][SelectionNext]_vars

\* ------------------------------------------------- claims about put and take

\* C1: after any sequence of put and take calls from the empty ownership
\* list, branch.ownership is sorted ascending by file_path and no two entries
\* have the same file_path.
C1_SortedUnique ==
    \A i \in 1..Len(branch.ownership) : \A j \in 1..Len(branch.ownership) :
        i < j => StrLess(branch.ownership[i].file_path, branch.ownership[j].file_path)

\* A put of the smaller path onto a branch that held only the larger one.
C1_Witness ==
    /\ lastOp = "put"
    /\ Len(prevOwnership) = 1
    /\ StrLess(lastArg.file_path, prevOwnership[1].file_path)
    /\ Len(branch.ownership) = 2
    /\ branch.ownership[1].file_path = lastArg.file_path

NoHunkTwice(hs) == \A i \in 1..Len(hs) : \A j \in 1..Len(hs) : i # j => hs[i] # hs[j]

\* C5: put is idempotent: once put(o) has run, a second put(o) leaves the
\* ownership list as it is, with exactly one entry for o.file_path and no
\* hunk twice in it.
C5_PutIdempotent ==
    lastOp = "put" =>
        LET again == put(branch.ownership, lastArg)
            mine == EntriesOf(again, lastArg.file_path)
        IN /\ again = branch.ownership
           /\ Len(mine) = 1
           /\ NoHunkTwice(mine[1].hunks)

\* A put that merged new hunks into an entry the branch already had.
C5_Witness ==
    /\ lastOp = "put"
    /\ HasEntry(prevOwnership, lastArg.file_path)
    /\ lastArg.hunks # <<>>
    /\ prevOwnership # branch.ownership
    /\ put(branch.ownership, lastArg) = branch.ownership

\* C6: put(f,[h1]) on a branch without f, then put(f,[h2]) with h1 and h2
\* apart, leaves one entry for f covering exactly h1 and h2; a following
\* take(f,[h2]) leaves one entry for f covering exactly h1.
C6_MergeThenSubtract ==
    LET mine == EntriesOf(branch.ownership, scenario.file)
    IN /\ scenario.stage = 2 =>
            /\ Len(mine) = 1
            /\ Cover(mine[1].hunks) = Cover(<<scenario.h1>>) \cup Cover(<<scenario.h2>>)
            /\ Len(mine[1].hunks) = 2
       /\ scenario.stage = 3 =>
            /\ Len(mine) = 1
            /\ mine[1].hunks = <<scenario.h1>>

C6_Witness ==
    /\ scenario.stage = 3
    /\ lastOp = "take"
    /\ lastArg.hunks = <<scenario.h2>>
    /\ Len(EntriesOf(prevOwnership, scenario.file)[1].hunks) = 2

\* C7: put(f,[h1]) on a branch without f, then take(f,[h1]), leaves no entry
\* for f; and whenever take(o) subtracts every hunk held for o.file_path, the
\* entry is removed, not kept with an empty hunk list.
C7_FullSubtractionRemoves ==
    /\ scenario.stage = 4 => ~HasEntry(branch.ownership, scenario.file)
    /\ (/\ lastOp = "take"
        /\ HasEntry(prevOwnership, lastArg.file_path)
        /\ \A i \in 1..Len(prevOwnership) :
              prevOwnership[i].file_path = lastArg.file_path
                  => Cover(prevOwnership[i].hunks) \subseteq Cover(lastArg.hunks))
       => ~HasEntry(branch.ownership, lastArg.file_path)

C7_Witness ==
    /\ scenario.stage = 4
    /\ lastOp = "take"
    /\ prevOwnership = <<[file_path |-> scenario.file, hunks |-> <<scenario.h1>>]>>
    /\ branch.ownership = <<>>

SubRange(s, h) == h.start <= s.start /\ s.end <= h.end

\* C8: after put(f,[h1]) the branch contains (f,[s]) for every sub-range s of
\* h1; and it contains no Ownership with hunks whose file has no entry.
C8_Containment ==
    /\ (lastOp = "put" /\ Len(lastArg.hunks) = 1) =>
          \A s \in AllHunks :
              SubRange(s, lastArg.hunks[1]) =>
                  Branch_contains(branch.ownership,
                                 [file_path |-> lastArg.file_path, hunks |-> <<s>>])
    /\ \A o \in Ownerships :
          (o.hunks # <<>> /\ ~HasEntry(branch.ownership, o.file_path))
              => ~Branch_contains(branch.ownership, o)

\* A put of one hunk of two lines or more, onto a branch holding another file.
C8_Witness ==
    /\ lastOp = "put"
    /\ Len(lastArg.hunks) = 1
    /\ lastArg.hunks[1].end - lastArg.hunks[1].start >= 2
    /\ Len(branch.ownership) = 2
    /\ Branch_contains(branch.ownership,
                      [file_path |-> lastArg.file_path,
                       hunks |-> <<Hunk(lastArg.hunks[1].start, lastArg.hunks[1].start + 1)>>])

\* C10: after any sequence of put and take calls from the empty ownership
\* list, no entry of branch.ownership has an empty hunk list.
C10_NoEmptyEntry ==
    \A i \in 1..Len(branch.ownership) : branch.ownership[i].hunks # <<>>

\* ------------------------------------------------ claims about the catalog

\* C2: once write(b) has completed, for b with a non-empty ownership list,
\* read(b.id) returns a Branch equal to b in every field and in the ownership
\* list with its order; of several branches written under one id, read
\* returns the one written last.
C2_RoundTrip ==
    (/\ storeOp.op = "read"
     /\ storeOp.id \in BranchIds
     /\ lastWritten[storeOp.id].some
     /\ lastWritten[storeOp.id].val.ownership # <<>>)
    => storeOp.result = Ok(lastWritten[storeOp.id].val)

\* A read of an id whose record replaced a different one; the branch read
\* has an unsorted ownership list.
C2_Witness ==
    /\ storeOp.op = "read"
    /\ storeOp.id \in BranchIds
    /\ lastWritten[storeOp.id].some
    /\ lastWritten[storeOp.id].replaced
    /\ storeOp.result.ok
    /\ Len(storeOp.result.val.ownership) = 2
    /\ StrLess(storeOp.result.val.ownership[2].file_path,
               storeOp.result.val.ownership[1].file_path)

\* C3: in every state reached by write and write_selected calls, read(id)
\* fails with NotFound for every id under which no branch has been written.
C3_AbsentIsNotFound ==
    (/\ storeOp.op = "read"
     /\ (storeOp.id \in BranchIds => ~lastWritten[storeOp.id].some))
    => storeOp.result = Err(NotFound)

LastSelected == IF selectCalls = <<>> THEN None ELSE selectCalls[Len(selectCalls)]

\* C4: read_selected is a last-write-wins register over write_selected: None
\* before any call, Some(x) after write_selected(Some(x)), None again after
\* write_selected(None).
C4_SelectedRegister ==
    storeOp.op = "read_selected" => storeOp.result = Ok(LastSelected)

\* A read_selected that returns None after Some(x) was written and then cleared.
C4_Witness ==
    /\ storeOp.op = "read_selected"
    /\ Len(selectCalls) = 2
    /\ selectCalls[1].some
    /\ ~selectCalls[2].some
    /\ storeOp.result = Ok(None)

\* ------------------------------------- claims about a record that is damaged

OwnershipPath == PathJoin(BranchPath(Str_b1), P_ownership)

\* The lines of the stored meta/ownership value that do not parse.
StoredBadLines ==
    IF OwnershipPath \in DOMAIN store /\ store[OwnershipPath] # Unreadable
    THEN SelectSeq(StrLines(store[OwnershipPath]), LAMBDA l : ~parse_string(l).ok)
    ELSE <<>>

\* The eight fields try_from reads before meta/ownership are all readable.
ReadableBeforeOwnership ==
    LET root == BranchPath(Str_b1)
    IN /\ sub_read_string(store, root, P_id).ok
       /\ sub_read_string(store, root, P_name).ok
       /\ sub_read_bool(store, root, P_applied).ok
       /\ sub_read_string(store, root, P_upstream).ok
       /\ sub_read_string(store, root, P_tree).ok
       /\ sub_read_string(store, root, P_head).ok
       /\ sub_read_u128(store, root, P_created).ok
       /\ sub_read_u128(store, root, P_updated).ok

ReadOfRecord == storeOp.op = "read" /\ storeOp.id = Str_b1

\* C9 as stated: whenever the stored meta/ownership value has a line that does
\* not parse, read fails with an error that carries an offending line.
C9_ErrorCarriesBadLine ==
    (ReadOfRecord /\ StoredBadLines # <<>>)
    => /\ ~storeOp.result.ok
       /\ storeOp.result.err.kind = "IOError"
       /\ \E i \in 1..Len(StoredBadLines) : Carries(storeOp.result.err.msg, StoredBadLines[i])

\* C9 as amended: whenever the stored meta/ownership value has a line that
\* does not parse, read fails and returns no Branch; and when the fields read
\* before meta/ownership are readable, the error is the IO-class error of
\* meta/ownership and carries the first offending line.
C9_BadLineFailsRead ==
    (ReadOfRecord /\ StoredBadLines # <<>>)
    => /\ ~storeOp.result.ok
       /\ storeOp.result.err.kind = "IOError"
       /\ ReadableBeforeOwnership
            => /\ StartsWith(storeOp.result.err.msg, P_ownership \o <<":", " ">>)
               /\ Carries(storeOp.result.err.msg, StoredBadLines[1])

\* A read of a record whose only damage is a bad line between two good ones.
C9_Witness ==
    /\ ReadOfRecord
    /\ ReadableBeforeOwnership
    /\ Len(StoredBadLines) = 1
    /\ Len(StrLines(store[OwnershipPath])) = 3
    /\ ~parse_string(StrLines(store[OwnershipPath])[2]).ok
    /\ ~storeOp.result.ok
    /\ Carries(storeOp.result.err.msg, StoredBadLines[1])

\* ------------------------------ claims about a record with a failing field

\* The fields in the order try_from reads them.
ReadOrder ==
    <<P_id, P_name, P_applied, P_upstream, P_tree, P_head, P_created, P_updated,
      P_ownership>>

\* Reading the field below `root` fails: the reader call returns an error, or
\* a line of meta/ownership does not parse.
FieldReadFails(st, root, field) ==
    IF field = P_applied THEN ~sub_read_bool(st, root, field).ok
    ELSE IF field \in {P_created, P_updated} THEN ~sub_read_u128(st, root, field).ok
    ELSE IF field = P_ownership
    THEN \/ ~sub_read_string(st, root, field).ok
         \/ ~ParseOwnershipLines(StrLines(sub_read_string(st, root, field).val)).ok
    ELSE ~sub_read_string(st, root, field).ok

\* The position in ReadOrder of the first field whose read fails, 0 if none.
FirstFailing(st, root) ==
    IF \E k \in 1..Len(ReadOrder) : FieldReadFails(st, root, ReadOrder[k])
    THEN CHOOSE k \in 1..Len(ReadOrder) :
            /\ FieldReadFails(st, root, ReadOrder[k])
            /\ \A j \in 1..(k - 1) : ~FieldReadFails(st, root, ReadOrder[j])
    ELSE 0

\* C11: when branches/{id} exists and the read of one of the record's fields
\* fails (absent, undeliverable or undecodable), read(id) returns an IO-class
\* error whose message starts with the path of the field whose read failed;
\* it returns neither NotFound nor a Branch.
C11_FieldFailureIsIOError ==
    (/\ storeOp.op = "read"
     /\ exists(store, BranchPath(storeOp.id))
     /\ FirstFailing(store, BranchPath(storeOp.id)) # 0)
    => /\ ~storeOp.result.ok
       /\ storeOp.result.err.kind = "IOError"
       /\ StartsWith(storeOp.result.err.msg,
                     ReadOrder[FirstFailing(store, BranchPath(storeOp.id))] \o <<":", " ">>)

\* A read of a record whose meta/head is absent and whose other fields are
\* readable: the error names meta/head.
C11_Witness ==
    /\ ReadOfRecord
    /\ PathJoin(BranchPath(Str_b1), P_head) \notin DOMAIN store
    /\ ReadOrder[FirstFailing(store, BranchPath(Str_b1))] = P_head
    /\ ~storeOp.result.ok
    /\ storeOp.result.err = IOError(P_head \o <<":", " ">> \o ErrorText(NotFound))

\* The stored bytes of the field are delivered.
Delivered(st, root, field) == sub_read_string(st, root, field).ok

\* The delivered bytes of the field do not decode as the field's type.
Malformed(st, root, field) ==
    LET text == sub_read_string(st, root, field).val
    IN IF field = P_applied THEN ~ParseBool(text).some
       ELSE IF field \in {P_created, P_updated} THEN ~ParseU128(text).some
       ELSE IF field \in {P_tree, P_head}
       THEN ~(Len(text) = 2 * OidRawLen /\ \A i \in 1..Len(text) : IsHexDigit(text[i]))
       ELSE IF field = P_ownership THEN ~ParseOwnershipLines(StrLines(text)).ok
       ELSE FALSE

MalformedFields(st, root) ==
    {field \in FieldPaths : Delivered(st, root, field) /\ Malformed(st, root, field)}

\* C12: when every field of the record is stored and some do not decode (a
\* meta/applied that is no boolean, a timestamp that is no decimal number, a
\* meta/tree or meta/head that is no 160-bit hexadecimal id), read(id) returns
\* one error that names a malformed field; it returns no Branch and does not
\* abort.
C12_MalformedFieldIsError ==
    (/\ ReadOfRecord
     /\ \A field \in FieldPaths : Delivered(store, BranchPath(Str_b1), field)
     /\ MalformedFields(store, BranchPath(Str_b1)) # {})
    => /\ ~storeOp.result.ok
       /\ storeOp.result.err.kind = "IOError"
       /\ \E field \in MalformedFields(store, BranchPath(Str_b1)) :
             StartsWith(storeOp.result.err.msg, field \o <<":", " ">>)

\* -------------------------------- claims about the pointer when reads fail

SelectedPath == PathJoin(P_branches, P_selected)

\* C13: read_selected returns Ok(None) exactly when the read of
\* branches/selected fails with NotFound (nothing is stored there); when the
\* read fails with another error it returns that same error; when the read
\* succeeds it returns Some of the stored text, unchanged.
C13_ReadSelectedOutcome ==
    storeOp.op = "read_selected"
    => /\ (storeOp.result.ok /\ ~storeOp.result.val.some)
             <=> SelectedPath \notin DOMAIN store
       /\ (SelectedPath \in DOMAIN store /\ store[SelectedPath] = Unreadable)
             => storeOp.result = Err(MediumFailure)
       /\ (SelectedPath \in DOMAIN store /\ store[SelectedPath] # Unreadable)
             => storeOp.result = Ok(Some(store[SelectedPath]))

\* A read_selected while the medium fails on branches/selected: the failure
\* of the medium comes back, neither None nor NotFound.
C13_Witness ==
    /\ storeOp.op = "read_selected"
    /\ SelectedPath \in DOMAIN store
    /\ store[SelectedPath] = Unreadable
    /\ storeOp.result = Err(MediumFailure)
    /\ selectCalls # <<>>

\* ------------------------------------- claims about the fields of a Branch

\* The last call was a put or a take that changed the branch.
Mutated == lastOp \in {"put", "take"} /\ branch.ownership # prevOwnership

\* C14: after a put or a take that changes the branch, updated_timestamp_ms
\* has been set by that call.
C14_UpdatedTimestampSet ==
    Mutated => "updated_timestamp_ms" \in assigned

\* ------------------------------------------------- claims about the prompt

\* The number of filtered options when the last key arrived.
FilteredBefore == Len(event.before.options.filtered_options)

\* C15: with n >= 1 filtered options, Up / Ctrl-p / Ctrl-P set
\* current_selection to max(current_selection - 1, 0), Down / Ctrl-n / Ctrl-N
\* to min(current_selection + 1, n - 1), Home / Ctrl-a / Ctrl-A to 0 and
\* End / Ctrl-e / Ctrl-E to n - 1; each returns Continue and changes neither
\* the filter text nor the option lists.
C15_Navigation ==
    (event.key \in NavigationKeys /\ FilteredBefore >= 1)
    => /\ event.key \in UpKeys
            => prompt.current_selection =
                  IF event.before.current_selection - 1 > 0
                  THEN event.before.current_selection - 1 ELSE 0
       /\ event.key \in DownKeys
            => prompt.current_selection =
                  IF event.before.current_selection + 1 < FilteredBefore - 1
                  THEN event.before.current_selection + 1 ELSE FilteredBefore - 1
       /\ event.key \in HomeKeys => prompt.current_selection = 0
       /\ event.key \in EndKeys => prompt.current_selection = FilteredBefore - 1
       /\ event.outcome = Continue
       /\ prompt.current_filter = event.before.current_filter
       /\ prompt.options = event.before.options
       /\ prompt.is_submitted = event.before.is_submitted

\* Ctrl-n on the last of three filtered options: the selection stays on it.
C15_Witness ==
    /\ event.key = Key_Ctrl("n")
    /\ FilteredBefore = 3
    /\ event.before.current_selection = 2
    /\ prompt.current_selection = 2
    /\ event.outcome = Continue

\* C16: before submission, after any sequence of keys, current_selection is
\* a position of the filtered list whenever that list is not empty, and 0
\* whenever it is empty; a navigation key pressed while the filter matches
\* nothing returns Continue and leaves current_selection at 0.
C16_SelectionValid ==
    ~prompt.is_submitted
    => /\ prompt.options.filtered_options # <<>>
            => prompt.current_selection \in
                  0..(Len(prompt.options.filtered_options) - 1)
       /\ prompt.options.filtered_options = <<>> => prompt.current_selection = 0
       /\ (event.key \in NavigationKeys /\ FilteredBefore = 0)
            => /\ event.outcome = Continue
               /\ prompt.current_selection = 0

\* Ctrl-n after a character that stands in none of three labels.
C16_Witness ==
    /\ event.key = Key_Ctrl("n")
    /\ Len(prompt.options.all_options) = 3
    /\ prompt.current_filter = <<"z">>
    /\ prompt.options.filtered_options = <<>>
    /\ prompt.current_selection = 0
    /\ event.outcome = Continue

\* ------------------------------------------ claims about what a call leaves

\* C17: take(o) on a branch that has no entry for o.file_path leaves the
\* whole branch unchanged: the ownership list after the call equals the list
\* before it, and so does every other field.
C17_TakeAbsentUnchanged ==
    (lastOp = "take" /\ ~HasEntry(prevOwnership, lastArg.file_path))
    => /\ branch.ownership = prevOwnership
       /\ branch = [NewBranch EXCEPT !.ownership = prevOwnership]

\* A take of hunks of a file the branch has no entry for, while it has an
\* entry with hunks for the other file.
C17_Witness ==
    /\ lastOp = "take"
    /\ lastArg.hunks # <<>>
    /\ ~HasEntry(prevOwnership, lastArg.file_path)
    /\ Len(prevOwnership) = 1
    /\ prevOwnership[1].hunks # <<>>
    /\ branch.ownership = prevOwnership

\* C18: put(o) and take(o) with an o whose hunk list is empty are no-ops:
\* the ownership list after the call equals the list before it, whether or
\* not the branch has an entry for o.file_path.
C18_EmptyHunksNoOp ==
    (lastOp \in {"put", "take"} /\ lastArg.hunks = <<>>)
    => branch.ownership = prevOwnership

\* The entries of the other files, in their order.
OthersOf(own, path) == SelectSeq(own, LAMBDA x : x.file_path # path)

SelectedBefore ==
    event.before.options.transformed_options[
        event.before.options.filtered_options[event.before.current_selection + 1] + 1]

\* C20: the prompt ends only through Enter or Esc. Enter returns Done with
\* the option at position current_selection of the filtered list and sets
\* is_submitted when that list is not empty, and returns Continue with the
\* prompt unchanged when it is empty; Esc returns Abort(Interrupt) in every
\* state; every other key returns Continue; Backspace on an empty filter
\* leaves the prompt unchanged.
C20_EndsByEnterOrEsc ==
    event.key # Key_Named("none")
    => /\ (event.key = Key_Named("Enter") /\ FilteredBefore >= 1)
            => /\ event.outcome = Done(SelectedBefore)
               /\ prompt.is_submitted
       /\ (event.key = Key_Named("Enter") /\ FilteredBefore = 0)
            => /\ event.outcome = Continue
               /\ prompt = event.before
       /\ event.key = Key_Named("Esc")
            => /\ event.outcome = Abort("Interrupt")
               /\ prompt = event.before
       /\ event.key \notin {Key_Named("Enter"), Key_Named("Esc")}
            => event.outcome = Continue
       /\ (event.key = Key_Named("Backspace") /\ event.before.current_filter = <<>>)
            => prompt = event.before
       /\ prompt.is_submitted <=> event.outcome.kind = "Done"

\* Enter on the second of the two options the filter "b" keeps.
C20_Witness ==
    /\ event.key = Key_Named("Enter")
    /\ event.before.current_filter = <<"b">>
    /\ event.before.options.filtered_options = <<1, 2>>
    /\ event.before.current_selection = 1
    /\ event.outcome = Done(Label_ab)
    /\ prompt.is_submitted
    /\ prompt.options.all_options = <<Label_a, Label_b>>

=============================================================================
